---- MODULE Spec2Model ----
(***************************************************************************)
(* A model of condaci.py: version classification, hosted-artifact parsing, *)
(* the retention (purge) policy and the upload orchestration around it.    *)
(*                                                                         *)
(* A Python str that the program splits or searches (a version, a file     *)
(* name, a path, a hosted identifier, a describe output) is a sequence of  *)
(* one-character strings.  A str it only passes on or compares whole (a    *)
(* key, a channel, a branch, a command word, the value of an environment   *)
(* variable) is a sequence of one element, the whole text.  None is the    *)
(* value None below, which equals no str.                                  *)
(***************************************************************************)
EXTENDS Integers, Sequences, FiniteSets, TLC

VARIABLES
    pc,             \* position of the running invocation
    frame,          \* arguments and locals of the running invocation
    ret,            \* what the invocation returned or raised
    environ,        \* os.environ
    repo,           \* the checkout: versioneer versions found, git describe outcome
    channel_files,  \* the full_names hosted on the channel (remote state)
    calls,          \* external commands and API calls issued, in order
    stdout,         \* lines printed (by tag)
    host,           \* the machine and interpreter the script runs on
    pypirc          \* the file ~/.pypirc

vars == <<pc, frame, ret, environ, repo, channel_files, calls, stdout, host, pypirc>>

None == <<"", "None">>

-----------------------------------------------------------------------------
(* Bounds                                                                  *)

MaxVerLen == 4
MaxRawLen == 6
MaxFullNameLen == 5
MaxHosted == 2

-----------------------------------------------------------------------------
(* Python str and list primitives                                          *)

\* all strings over alphabet A of length at most n
StrUpTo(A, n) == UNION {[1..k -> A] : k \in 0..n}

\* s.startswith(pre)
StartsWith(s, pre) ==
    /\ Len(pre) <= Len(s)
    /\ SubSeq(s, 1, Len(pre)) = pre

\* sub in s
Contains(s, sub) ==
    \E i \in 0..(Len(s) - Len(sub)) : SubSeq(s, i + 1, i + Len(sub)) = sub

\* s.split(c), c one character: never empty, '' gives ['']
RECURSIVE Split(_, _)
Split(s, c) ==
    IF \A i \in DOMAIN s : s[i] # c
    THEN <<s>>
    ELSE LET k == CHOOSE i \in DOMAIN s : s[i] = c /\ \A j \in 1..(i - 1) : s[j] # c
         IN  <<SubSeq(s, 1, k - 1)>> \o Split(SubSeq(s, k + 1, Len(s)), c)

\* c.join(parts)
RECURSIVE Join(_, _)
Join(parts, c) ==
    IF Len(parts) = 0 THEN <<>>
    ELSE IF Len(parts) = 1 THEN parts[1]
    ELSE parts[1] \o <<c>> \o Join(Tail(parts), c)

\* s.replace(a, b), a and b one character
Replace(s, a, b) == [i \in DOMAIN s |-> IF s[i] = a THEN b ELSE s[i]]

\* s.rstrip(c)
RECURSIVE RStrip(_, _)
RStrip(s, c) ==
    IF Len(s) > 0 /\ s[Len(s)] = c THEN RStrip(SubSeq(s, 1, Len(s) - 1), c) ELSE s

\* c.lower() for the characters of the model
Lower(c) == IF c = "V" THEN "v" ELSE c

\* l[i] with Python's zero-based index i >= 0: a value or IndexError
Item(l, i) ==
    IF i + 1 <= Len(l)
    THEN [exc |-> "", val |-> l[i + 1]]
    ELSE [exc |-> "IndexError", val |-> None]

\* l[-1] of a non-empty list
Last(l) == l[Len(l)]

\* posixpath.split(path): (head, tail)
PathSplit(path) ==
    LET slashes == {i \in DOMAIN path : path[i] = "/"}
        i == IF slashes = {} THEN 0 ELSE CHOOSE k \in slashes : \A j \in slashes : j <= k
        head == SubSeq(path, 1, i)
        tail == SubSeq(path, i + 1, Len(path))
    IN  <<IF head # <<>> /\ (\E j \in DOMAIN head : head[j] # "/")
          THEN RStrip(head, "/") ELSE head,
          tail>>

-----------------------------------------------------------------------------
(* Versioning                                                              *)

\* same_version_different_build = lambda v1, v2: v2.startswith(v1.split('+')[0])
same_version_different_build(v1, v2) == StartsWith(v2, Split(v1, "+")[1])

is_tag(v) == ~Contains(v, <<"+">>)
is_dev_tag(v) == StartsWith(Last(Split(v, ".")), <<"d", "e", "v">>)
is_rc_tag(v) == Contains(Split(v, "+")[1], <<"r", "c">>)
\* is_release_tag without the rc test
is_release_tag_ignoring_rc(v) == is_tag(v) /\ ~is_dev_tag(v)
is_release_tag(v) == is_tag(v) /\ ~(is_rc_tag(v) \/ is_dev_tag(v))

\* version_from_git_tags comparing raw[0] with 'v' without lower()
version_from_git_tags_case_sensitive(git) ==
    IF git.returncode # 0
    THEN [exc |-> "CalledProcessError", val |-> None, warned |-> FALSE]
    ELSE LET raw == IF git.out[1] = "v" THEN Tail(git.out) ELSE git.out
             parts == Split(raw, "-")
         IN  IF Len(parts) # 3
             THEN [exc |-> "", val |-> raw, warned |-> TRUE]
             ELSE [exc |-> "",
                   val |-> parts[1] \o <<"+">> \o parts[2] \o <<".">> \o parts[3],
                   warned |-> FALSE]

\* version_from_git_tags, git being the outcome of `git describe --tags`
\* (check_output raises on a non-zero exit; the stripped output is not empty):
\* the value returned or the exception, and whether the warning was printed
version_from_git_tags(git) ==
    IF git.returncode # 0
    THEN [exc |-> "CalledProcessError", val |-> None, warned |-> FALSE]
    ELSE LET raw == IF Lower(git.out[1]) = "v" THEN Tail(git.out) ELSE git.out
             parts == Split(raw, "-")
         IN  IF Len(parts) # 3
             THEN [exc |-> "", val |-> raw, warned |-> TRUE]
             ELSE [exc |-> "",
                   val |-> parts[1] \o <<"+">> \o parts[2] \o <<".">> \o parts[3],
                   warned |-> FALSE]

\* get_version, r being the checkout: r.versioneer lists the versions that
\* versions_from_versioneer yields (a _version.py that fails is printed and skipped)
get_version(r) ==
    IF Len(r.versioneer) = 1
    THEN [exc |-> "", val |-> r.versioneer[1], warned |-> FALSE]
    ELSE version_from_git_tags(r.git)

\* the lines get_version and version_from_git_tags print
version_warnings(v) ==
    IF v.warned THEN <<"could not interpret version string">> ELSE <<>>

\* set_condaci_version without its try/except
set_condaci_version_uncaught(r, env) ==
    LET v == get_version(r)
    IN  [exc |-> v.exc,
         environ |-> IF v.exc = "" THEN [env EXCEPT !["CONDACI_VERSION"] = v.val] ELSE env,
         said |-> version_warnings(v)]

\* set_condaci_version, env being os.environ: the exception it lets through,
\* os.environ afterwards and the lines printed
set_condaci_version(r, env) ==
    LET v == get_version(r)
    IN  IF v.exc = ""
        THEN [exc |-> "", environ |-> [env EXCEPT !["CONDACI_VERSION"] = v.val],
              said |-> version_warnings(v)]
        ELSE IF v.exc = "CalledProcessError"
        THEN [exc |-> "", environ |-> env,
              said |-> version_warnings(v) \o <<"Warning - unable to set CONDACI_VERSION">>]
        ELSE [exc |-> v.exc, environ |-> env, said |-> version_warnings(v)]

-----------------------------------------------------------------------------
(* Binstar integration: hosted identifiers and local filenames             *)

\* BinstarFile(full_name): the object keeps full_name and nothing else; every
\* property splits it again when read
BinstarFile(full_name) == [full_name |-> full_name]

BinstarFile_user(f) == Item(Split(f.full_name, "/"), 0)
BinstarFile_name(f) == Item(Split(f.full_name, "/"), 1)
\* the version property reading segment 1
BinstarFile_version_off_by_one(f) == Item(Split(f.full_name, "/"), 1)
BinstarFile_version(f) == Item(Split(f.full_name, "/"), 2)

\* '/'.join(full_name.split('/')[3:]): a slice never raises
BinstarFile_basename(f) ==
    LET parts == Split(f.full_name, "/")
    IN  [exc |-> "", val |-> Join(SubSeq(parts, 4, Len(parts)), "/")]

BinstarFile_platform(f) == Item(Split(Replace(f.full_name, "\\", "/"), "/"), 3)

BinstarFile_configuration(f) ==
    LET seg == Item(Split(Replace(f.full_name, "\\", "/"), "/"), 4)
    IN  IF seg.exc # "" THEN seg
        ELSE LET tok == Item(Split(seg.val, "-"), 2)
             IN  IF tok.exc # "" THEN tok
                 ELSE [exc |-> "", val |-> Split(tok.val, ".")[1]]

\* all_info() reads the six properties in order: the first failure propagates
BinstarFile_all_info(f) ==
    LET reads == <<BinstarFile_user(f), BinstarFile_name(f), BinstarFile_basename(f),
                   BinstarFile_version(f), BinstarFile_platform(f),
                   BinstarFile_configuration(f)>>
    IN  IF \E i \in DOMAIN reads : reads[i].exc # ""
        THEN [exc |-> "IndexError", val |-> None]
        ELSE [exc |-> "", val |-> [i \in DOMAIN reads |-> reads[i].val]]

configuration_from_binstar_filename(fn) == Split(Last(Split(fn, "-")), ".")[1]
name_from_binstar_filename(fn) == Split(fn, "-")[1]
version_from_binstar_filename(fn) == Item(Split(fn, "-"), 1)
platform_from_binstar_filepath(fp) == PathSplit(PathSplit(fp)[1])[2]

\* binstar_files_on_channel: one BinstarFile per file the channel shows
binstar_files_on_channel(shown) == {BinstarFile(i) : i \in shown}

\* the condition of the list comprehension of files_to_remove without the test
\* that the hosted version is no release tag
Superseded_releases_too(f, name, configuration, platform_, version) ==
    /\ BinstarFile_name(f).val = name
    /\ BinstarFile_configuration(f).val = configuration
    /\ BinstarFile_platform(f).val = platform_
    /\ BinstarFile_version(f).val # version
    /\ same_version_different_build(version, BinstarFile_version(f).val)

\* the condition of the list comprehension of files_to_remove
Superseded(f, name, configuration, platform_, version) ==
    /\ BinstarFile_name(f).val = name
    /\ BinstarFile_configuration(f).val = configuration
    /\ BinstarFile_platform(f).val = platform_
    /\ BinstarFile_version(f).val # version
    /\ ~is_release_tag(BinstarFile_version(f).val)
    /\ same_version_different_build(version, BinstarFile_version(f).val)

\* files_to_remove, shown being what show_channel answers: the files to remove,
\* or the IndexError of a filename without '-' or of a hosted identifier that
\* lacks a field read while printing the candidates (f.name of every file,
\* all_info() of those of the same name)
files_to_remove(shown, filepath) ==
    LET platform_ == platform_from_binstar_filepath(filepath)
        filename == PathSplit(filepath)[2]
        name == name_from_binstar_filename(filename)
        version == version_from_binstar_filename(filename)
        configuration == configuration_from_binstar_filename(filename)
        all_files == binstar_files_on_channel(shown)
    IN  IF version.exc # ""
        THEN [exc |-> "IndexError", val |-> {}]
        ELSE IF \E f \in all_files :
                    \/ BinstarFile_name(f).exc # ""
                    \/ BinstarFile_name(f).val = name /\ BinstarFile_all_info(f).exc # ""
        THEN [exc |-> "IndexError", val |-> {}]
        ELSE [exc |-> "",
              val |-> {f \in all_files :
                          Superseded(f, name, configuration, platform_, version.val)}]

\* binstar_upload_and_purge purging whatever the channel
purges_every_channel(channel) == TRUE
\* the test of binstar_upload_and_purge: channel != 'main'
purges_channel(channel) == channel # <<"main">>

\* a check that lets a non-zero exit pass, as subprocess.call would
check_raises_never(rc) == FALSE
\* check = partial(subprocess.check_call, ...): raises on a non-zero exit
check_raises(rc) == rc # 0

\* the command line of binstar_upload_unchecked; binstar(mc) is its first word
upload_cmd(key, user, channel, path) ==
    <<<<"binstar">>, <<"-t">>, key, <<"upload">>, <<"--force">>, <<"-u">>, user,
      <<"-c">>, channel, path>>

\* the masking of cmd[2] in binstar_upload_unchecked, at cmd[1]
masked_wrong_index(cmd) == [cmd EXCEPT ![2] = <<"BINSTAR_KEY">>]
\* cmd[2] = 'BINSTAR_KEY' (Python counts from 0)
masked(cmd) == [cmd EXCEPT ![3] = <<"BINSTAR_KEY">>]

-----------------------------------------------------------------------------
(* Inputs                                                                  *)

\* versions as versioneer and version_from_git_tags produce them
v_1_2 == <<"1", ".", "2">>
v_1_2_post1 == <<"1", ".", "2", "+", "1", ".", "a">>
v_1_2_post2 == <<"1", ".", "2", "+", "2", ".", "b">>
v_1_2_rc1 == <<"1", ".", "2", "r", "c", "1">>
v_1_2_dev3 == <<"1", ".", "2", ".", "d", "e", "v", "3">>
v_1_20_post1 == <<"1", ".", "2", "0", "+", "1", ".", "a">>
v_1_3_post1 == <<"1", ".", "3", "+", "1", ".", "a">>

SampleVersions ==
    {v_1_2, v_1_2_post1, v_1_2_post2, v_1_2_rc1, v_1_2_dev3, v_1_20_post1, v_1_3_post1}

VersionAlphabet == {"1", ".", "+", "r", "c", "d", "e", "v"}
VersionStrings == StrUpTo(VersionAlphabet, MaxVerLen) \cup SampleVersions

\* stripped, non-empty outputs of `git describe --tags`
SampleDescribes ==
    { <<"v", "1", ".", "2">>,
      <<"1", ".", "2">>,
      <<"v", "1", ".", "2", "-", "1", "-", "g", "a">>,
      <<"V", "1", ".", "2", "r", "c", "1", "-", "2", "-", "g", "b">>,
      <<"1", ".", "2", "-", "r", "c", "1", "-", "2", "-", "g", "b">> }

DescribeAlphabet == {"v", "V", "-", "1"}
DescribeOutputs == (StrUpTo(DescribeAlphabet, MaxRawLen) \ {<<>>}) \cup SampleDescribes

\* a hosted identifier user/name/version/platform/filename, the filename
\* encoding name-version-configuration.ext
FullName(user, name, version, platform, configuration) ==
    Join(<<user, name, version, platform,
           Join(<<name, version, configuration \o <<".", "t">>>>, "-")>>, "/")

\* the local path conda-build gives the built package
BldPkgPath(name, version, platform, configuration) ==
    Join(<<<<"b">>, platform,
           Join(<<name, version, configuration \o <<".", "t">>>>, "-")>>, "/")

n_w == <<"w">>
n_x == <<"x">>
n_a_b == <<"a", "-", "b">>
p_linux == <<"l", "-", "6">>
p_osx == <<"o", "-", "6">>
c_py2 == <<"p", "2">>
c_py3 == <<"p", "3">>
u_acme == <<"u">>

Package(name, version, platform, configuration) ==
    [name |-> name, version |-> version, platform |-> platform,
     configuration |-> configuration]

PkgFullName(user, pkg) ==
    FullName(user, pkg.name, pkg.version, pkg.platform, pkg.configuration)

PkgPath(pkg) == BldPkgPath(pkg.name, pkg.version, pkg.platform, pkg.configuration)

\* packages that may already be hosted on a channel
HostedVersions ==
    {v_1_2, v_1_2_post1, v_1_2_post2, v_1_2_rc1, v_1_20_post1, v_1_3_post1}

HostedPackages ==
    {Package(n_w, v, pc_[1], pc_[2]) :
        v \in HostedVersions,
        pc_ \in {<<p_linux, c_py2>>, <<p_linux, c_py3>>, <<p_osx, c_py2>>}}
    \cup {Package(n_x, v_1_2_post1, p_linux, c_py2),
          Package(n_a_b, v_1_2_post1, p_linux, c_py2)}

\* an identifier with three segments only
ShortFullName == Join(<<u_acme, n_w, v_1_2_post1>>, "/")

HostedFullNames == {PkgFullName(u_acme, h) : h \in HostedPackages} \cup {ShortFullName}

\* packages a build may produce
BuiltPackages ==
    {Package(n, v, p_linux, c_py2) : n \in {n_w, n_a_b}, v \in {v_1_2_post2, v_1_2}}

SegmentAlphabet == {"/", "a"}
FullNames == StrUpTo(SegmentAlphabet, MaxFullNameLen) \cup HostedFullNames

-----------------------------------------------------------------------------
(* PyPI                                                                    *)

\* platform.system(), platform.architecture()[0] and sys.version_info.major
\* of the machine the script runs on
host_platform(h) == h.platform
host_arch(h) == h.arch

\* the machines the script may run on
KeyNode == [platform |-> "Linux", arch |-> "64bit", major |-> 2]
Hosts ==
    [platform : {"Linux", "Darwin", "Windows"}, arch : {"64bit", "32bit"}, major : {2, 3}]

pypi_upload_allowed(h) ==
    host_platform(h) = "Linux" /\ host_arch(h) = "64bit" /\ h.major = 2

\* ~/.pypirc: absent, or the text it holds; of pypi_template only the two
\* fields filled in are kept
NoFile == [exists |-> FALSE, username |-> None, password |-> None]
EmptyFile == [exists |-> TRUE, username |-> None, password |-> None]

\* pypi_setup_dotfile: open(..., 'wb') creates or truncates the file; writing
\* a str to it is a TypeError on Python 3
pypi_setup_dotfile(h, username, password) ==
    IF h.major = 2
    THEN [exc |-> "", file |-> [exists |-> TRUE, username |-> username,
                                password |-> password]]
    ELSE [exc |-> "TypeError", file |-> EmptyFile]

\* upload_to_pypi_if_appropriate up to its call of execute_sequence: whether
\* it returns, raises or goes on, what it prints and what it leaves in
\* ~/.pypirc
pypi_decision(username, password, r, h, file) ==
    IF username = None \/ password = None
    THEN [go |-> "return", exc |-> "", file |-> file,
          said |-> <<"Missing PyPI username or password, skipping upload">>]
    ELSE LET v == get_version(r)
             w == pypi_setup_dotfile(h, username, password)
             key_node == IF pypi_upload_allowed(h) THEN <<>>
                         ELSE <<"Not on key node (Linux 64 Py2) - no PyPI upload">>
         IN  IF v.exc # ""
             THEN [go |-> "raise", exc |-> v.exc, file |-> file, said |-> <<>>]
             ELSE IF ~is_release_tag(v.val)
             THEN [go |-> "return", exc |-> "", file |-> file,
                   said |-> <<"Not on a tagged release - not uploading to PyPI">>]
             ELSE IF w.exc # ""
             THEN [go |-> "raise", exc |-> w.exc, file |-> w.file,
                   said |-> key_node \o <<"Setting up .pypirc file..">>]
             ELSE [go |-> "upload", exc |-> "", file |-> w.file,
                   said |-> key_node \o <<"Setting up .pypirc file..",
                                          "Uploading to PyPI user">>]

-----------------------------------------------------------------------------
(* The functions on strings, each applied to one input                     *)

EnvNames ==
    {"CONDACI_VERSION", "TRAVIS", "TRAVIS_PULL_REQUEST", "TRAVIS_TAG", "TRAVIS_BRANCH",
     "APPVEYOR", "APPVEYOR_PULL_REQUEST_NUMBER", "APPVEYOR_REPO_BRANCH"}

\* no variable set
EmptyEnviron == [n \in EnvNames |-> None]

GitFails == [returncode |-> 128, out |-> <<>>]
GitPrints(out) == [returncode |-> 0, out |-> out]

NoRet == [exc |-> "", val |-> None]

InitClassify ==
    /\ pc = "ready"
    /\ \E s \in VersionStrings \cup DescribeOutputs \cup FullNames :
          /\ frame = [fn |-> "", arg |-> s, self |-> None]
          /\ repo = [versioneer |-> <<>>,
                     git |-> IF s \in DescribeOutputs THEN GitPrints(s) ELSE GitFails]
    /\ ret = NoRet
    /\ environ = EmptyEnviron
    /\ channel_files = {}
    /\ calls = <<>>
    /\ stdout = <<>>
    /\ host = KeyNode
    /\ pypirc = NoFile

Returns(fn, r) ==
    /\ pc' = IF r.exc = "" THEN "returned" ELSE "raised"
    /\ frame' = [frame EXCEPT !.fn = fn]
    /\ ret' = r

Call_is_tag ==
    /\ pc = "ready" /\ frame.arg \in VersionStrings
    /\ Returns("is_tag", [exc |-> "", val |-> is_tag(frame.arg)])
    /\ UNCHANGED <<host, pypirc, environ, repo, channel_files, calls, stdout>>

Call_is_dev_tag ==
    /\ pc = "ready" /\ frame.arg \in VersionStrings
    /\ Returns("is_dev_tag", [exc |-> "", val |-> is_dev_tag(frame.arg)])
    /\ UNCHANGED <<host, pypirc, environ, repo, channel_files, calls, stdout>>

Call_is_rc_tag ==
    /\ pc = "ready" /\ frame.arg \in VersionStrings
    /\ Returns("is_rc_tag", [exc |-> "", val |-> is_rc_tag(frame.arg)])
    /\ UNCHANGED <<host, pypirc, environ, repo, channel_files, calls, stdout>>

Call_is_release_tag ==
    /\ pc = "ready" /\ frame.arg \in VersionStrings
    /\ Returns("is_release_tag", [exc |-> "", val |-> is_release_tag(frame.arg)])
    /\ UNCHANGED <<host, pypirc, environ, repo, channel_files, calls, stdout>>

Call_version_from_git_tags ==
    /\ pc = "ready" /\ repo.git.returncode = 0
    /\ LET r == version_from_git_tags(repo.git)
       IN  /\ Returns("version_from_git_tags", [exc |-> r.exc, val |-> r.val])
           /\ stdout' = IF r.warned THEN Append(stdout, "could not interpret version string")
                        ELSE stdout
    /\ UNCHANGED <<host, pypirc, environ, repo, channel_files, calls>>

\* BinstarFile(full_name), as binstar_files_on_channel does for each hosted file
Call_BinstarFile ==
    /\ pc = "ready" /\ frame.arg \in FullNames
    /\ pc' = "constructed"
    /\ frame' = [frame EXCEPT !.fn = "BinstarFile", !.self = BinstarFile(frame.arg)]
    /\ ret' = [exc |-> "", val |-> BinstarFile(frame.arg)]
    /\ UNCHANGED <<host, pypirc, environ, repo, channel_files, calls, stdout>>

\* reading one property of the constructed object
Read_BinstarFile ==
    /\ pc = "constructed"
    /\ \E prop \in {"user", "name", "basename", "version", "platform", "configuration",
                    "all_info"} :
          Returns(prop,
                  CASE prop = "user" -> BinstarFile_user(frame.self)
                    [] prop = "name" -> BinstarFile_name(frame.self)
                    [] prop = "basename" -> BinstarFile_basename(frame.self)
                    [] prop = "version" -> BinstarFile_version(frame.self)
                    [] prop = "platform" -> BinstarFile_platform(frame.self)
                    [] prop = "configuration" -> BinstarFile_configuration(frame.self)
                    [] prop = "all_info" -> BinstarFile_all_info(frame.self))
    /\ UNCHANGED <<host, pypirc, environ, repo, channel_files, calls, stdout>>

NextClassify ==
    \/ Call_is_tag
    \/ Call_is_dev_tag
    \/ Call_is_rc_tag
    \/ Call_is_release_tag
    \/ Call_version_from_git_tags
    \/ Call_BinstarFile
    \/ Read_BinstarFile

SpecClassify == InitClassify /\ [][NextClassify]_vars

-----------------------------------------------------------------------------
(* Continuous-integration context                                          *)

\* os.environ[name]: the value or KeyError
Environ(env, name) ==
    IF env[name] # None THEN [exc |-> "", val |-> env[name]]
    ELSE [exc |-> "KeyError", val |-> None]

is_on_appveyor(env) == env["APPVEYOR"] # None
is_on_travis(env) == env["TRAVIS"] # None

is_pr_from_travis(env) ==
    LET v == Environ(env, "TRAVIS_PULL_REQUEST")
    IN  IF v.exc # "" THEN v ELSE [exc |-> "", val |-> v.val # <<"false">>]

is_pr_from_appveyor(env) ==
    [exc |-> "", val |-> env["APPVEYOR_PULL_REQUEST_NUMBER"] # None]

branch_from_appveyor(env) == Environ(env, "APPVEYOR_REPO_BRANCH")

\* branch_from_travis without the assumption made for a build of a tag
branch_from_travis_as_reported(env) ==
    LET tag == Environ(env, "TRAVIS_TAG")
        branch == Environ(env, "TRAVIS_BRANCH")
    IN  IF tag.exc # "" THEN tag ELSE branch
branch_from_travis(env) ==
    LET tag == Environ(env, "TRAVIS_TAG")
        branch == Environ(env, "TRAVIS_BRANCH")
    IN  IF tag.exc # "" THEN tag
        ELSE IF branch.exc # "" THEN branch
        ELSE IF tag.val = branch.val THEN [exc |-> "", val |-> <<"master">>]
        ELSE branch

is_pr_on_ci(env) ==
    IF is_on_travis(env) THEN is_pr_from_travis(env)
    ELSE IF is_on_appveyor(env) THEN is_pr_from_appveyor(env)
    ELSE [exc |-> "ValueError", val |-> None]

branch_from_ci(env) ==
    IF is_on_travis(env) THEN branch_from_travis(env)
    ELSE IF is_on_appveyor(env) THEN branch_from_appveyor(env)
    ELSE [exc |-> "ValueError", val |-> None]

\* resolve_can_upload_from_ci treating a pull request as fit to upload
resolve_can_upload_from_ci_inverted(env) == is_pr_on_ci(env)
resolve_can_upload_from_ci(env) ==
    LET pr == is_pr_on_ci(env)
    IN  IF pr.exc # "" THEN pr ELSE [exc |-> "", val |-> ~pr.val]

binstar_channel_from_ci(r, env) ==
    LET v == get_version(r)
    IN  IF v.exc # "" THEN [exc |-> v.exc, val |-> None]
        ELSE IF is_release_tag(v.val) THEN [exc |-> "", val |-> <<"main">>]
        ELSE branch_from_ci(env)

\* binstar_upload_if_appropriate up to its call of binstar_upload_and_purge:
\* whether it returns, raises or goes on, and the channel it goes on with
upload_decision(user, key, channel, r, env) ==
    IF user = None \/ key = None
    THEN [go |-> "return", exc |-> "", channel |-> channel,
          said |-> "-> Unable to upload to binstar"]
    ELSE LET can == resolve_can_upload_from_ci(env)
             resolved == IF channel = None THEN binstar_channel_from_ci(r, env)
                         ELSE [exc |-> "", val |-> channel]
         IN  IF can.exc # ""
             THEN [go |-> "raise", exc |-> can.exc, channel |-> channel, said |-> ""]
             ELSE IF ~can.val
             THEN [go |-> "return", exc |-> "", channel |-> channel,
                   said |-> "Cannot upload to binstar - must be a PR."]
             ELSE IF resolved.exc # ""
             THEN [go |-> "raise", exc |-> resolved.exc, channel |-> channel, said |-> ""]
             ELSE [go |-> "upload", exc |-> "", channel |-> resolved.val,
                   said |-> "Fit to upload to channel"]

-----------------------------------------------------------------------------
(* The commands                                                            *)

k_secret == <<"k3y">>

TravisPush ==
    [EmptyEnviron EXCEPT !["TRAVIS"] = <<"true">>, !["TRAVIS_PULL_REQUEST"] = <<"false">>,
                         !["TRAVIS_TAG"] = <<"">>, !["TRAVIS_BRANCH"] = <<"dev">>]
TravisTag ==
    [EmptyEnviron EXCEPT !["TRAVIS"] = <<"true">>, !["TRAVIS_PULL_REQUEST"] = <<"false">>,
                         !["TRAVIS_TAG"] = <<"v1.2">>, !["TRAVIS_BRANCH"] = <<"v1.2">>]
TravisPullRequest ==
    [EmptyEnviron EXCEPT !["TRAVIS"] = <<"true">>, !["TRAVIS_PULL_REQUEST"] = <<"7">>,
                         !["TRAVIS_TAG"] = <<"">>, !["TRAVIS_BRANCH"] = <<"master">>]
AppveyorPush ==
    [EmptyEnviron EXCEPT !["APPVEYOR"] = <<"True">>, !["APPVEYOR_REPO_BRANCH"] = <<"dev">>]
AppveyorPullRequest ==
    [EmptyEnviron EXCEPT !["APPVEYOR"] = <<"True">>, !["APPVEYOR_REPO_BRANCH"] = <<"master">>,
                         !["APPVEYOR_PULL_REQUEST_NUMBER"] = <<"7">>]
\* a push to a branch that is itself called main
TravisPushMain ==
    [EmptyEnviron EXCEPT !["TRAVIS"] = <<"true">>, !["TRAVIS_PULL_REQUEST"] = <<"false">>,
                         !["TRAVIS_TAG"] = <<"">>, !["TRAVIS_BRANCH"] = <<"main">>]
\* TRAVIS set and nothing else of Travis
TravisBare == [EmptyEnviron EXCEPT !["TRAVIS"] = <<"true">>]

CIEnvirons ==
    {EmptyEnviron, TravisPush, TravisTag, TravisPullRequest, AppveyorPush,
     AppveyorPullRequest, TravisPushMain, TravisBare}

Repos ==
    [versioneer : {<<>>, <<v_1_2_post2>>, <<v_1_2, v_1_2_post2>>},
     git : {GitFails} \cup {GitPrints(o) : o \in SampleDescribes}]

\* all subsets of P with at most n elements
RECURSIVE SetsUpTo(_, _)
SetsUpTo(P, n) ==
    IF n = 0 THEN {{}}
    ELSE LET S == SetsUpTo(P, n - 1) IN S \cup {s \cup {x} : s \in S, x \in P}

RunFrame(fn, user, key, channel, pkg) ==
    [fn |-> fn, user |-> user, key |-> key, channel |-> channel, pkg |-> pkg,
     filepath |-> PkgPath(pkg), shown |-> {}, found |-> {}, left |-> {}]

NoPackage == Package(None, None, None, None)

IdleFrame == [fn |-> "", user |-> None, key |-> None, channel |-> None, pkg |-> NoPackage,
              filepath |-> None, shown |-> {}, found |-> {}, left |-> {}]

Init ==
    /\ pc = "idle"
    /\ frame = IdleFrame
    /\ ret = NoRet
    /\ \E ci \in CIEnvirons, old \in {None, <<"0.9">>} :
          environ = [ci EXCEPT !["CONDACI_VERSION"] = old]
    /\ repo \in Repos
    /\ channel_files \in
          {{}, {PkgFullName(u_acme, Package(n_w, v, p_linux, c_py2)) :
                   v \in {v_1_2, v_1_2_post1}}}
    /\ calls = <<>>
    /\ stdout = <<>>
    /\ host = KeyNode
    /\ pypirc = NoFile

InitPurge ==
    /\ pc = "idle"
    /\ frame = IdleFrame
    /\ ret = NoRet
    /\ environ = EmptyEnviron
    /\ repo = [versioneer |-> <<>>, git |-> GitFails]
    /\ channel_files \in SetsUpTo(HostedFullNames, MaxHosted)
    /\ calls = <<>>
    /\ stdout = <<>>
    /\ host = KeyNode
    /\ pypirc = NoFile

\* set_condaci_version()
Call_set_condaci_version ==
    /\ pc = "idle"
    /\ LET r == set_condaci_version(repo, environ)
       IN  /\ frame' = [frame EXCEPT !.fn = "set_condaci_version"]
           /\ pc' = IF r.exc = "" THEN "returned" ELSE "raised"
           /\ ret' = [exc |-> r.exc, val |-> None]
           /\ environ' = r.environ
           /\ stdout' = stdout \o r.said
    /\ UNCHANGED <<host, pypirc, repo, channel_files, calls>>

\* binstar_channel_from_ci()
Call_binstar_channel_from_ci ==
    /\ pc = "idle"
    /\ LET r == binstar_channel_from_ci(repo, environ)
       IN  /\ frame' = [frame EXCEPT !.fn = "binstar_channel_from_ci"]
           /\ pc' = IF r.exc = "" THEN "returned" ELSE "raised"
           /\ ret' = r
           /\ stdout' = IF get_version(repo).exc # "" THEN stdout
                        ELSE IF is_release_tag(get_version(repo).val)
                        THEN Append(stdout, "current head is a tagged release")
                        ELSE Append(stdout, "current head is not a release")
    /\ UNCHANGED <<host, pypirc, environ, repo, channel_files, calls>>

\* binstar_upload_if_appropriate(mc, path, user, key, channel), the package at
\* path being pkg, up to its call of binstar_upload_and_purge
Call_binstar_upload_if_appropriate ==
    /\ pc = "idle"
    /\ \E user \in {None, u_acme}, key \in {None, k_secret},
          channel \in {None, <<"main">>, <<"master">>}, pkg \in BuiltPackages :
          LET d == upload_decision(user, key, channel, repo, environ)
          IN  /\ frame' = RunFrame("binstar_upload_if_appropriate", user, key,
                                   d.channel, pkg)
              /\ pc' = CASE d.go = "return" -> "returned"
                         [] d.go = "raise" -> "raised"
                         [] d.go = "upload" -> "upload"
              /\ ret' = [exc |-> d.exc, val |-> None]
              /\ stdout' = IF d.said = "" THEN stdout ELSE Append(stdout, d.said)
    /\ UNCHANGED <<host, pypirc, environ, repo, channel_files, calls>>

\* binstar_upload_and_purge(mc, key, user, channel, filepath), up to the upload
Call_binstar_upload_and_purge ==
    /\ pc = "idle"
    /\ \E channel \in {<<"main">>, <<"master">>}, pkg \in BuiltPackages :
          frame' = RunFrame("binstar_upload_and_purge", u_acme, k_secret, channel, pkg)
    /\ pc' = "upload"
    /\ UNCHANGED <<host, pypirc, ret, environ, repo, channel_files, calls, stdout>>

\* binstar_upload_unchecked: the binstar process exits with rc; on success the
\* channel holds the package
Upload ==
    /\ pc = "upload"
    /\ \E rc \in {0, 1, 2} :
          LET cmd == upload_cmd(frame.key, frame.user, frame.channel, frame.filepath)
          IN  /\ calls' = Append(calls, [call |-> "upload", args |-> cmd, rc |-> rc])
              /\ stdout' = Append(stdout, "Uploading to")
              /\ pc' = IF check_raises(rc) THEN "raised" ELSE "uploaded"
              /\ ret' = IF check_raises(rc)
                        THEN [exc |-> "CalledProcessError",
                              val |-> [returncode |-> rc, cmd |-> masked(cmd)]]
                        ELSE NoRet
              /\ channel_files' = IF rc = 0
                                  THEN channel_files \cup {PkgFullName(frame.user, frame.pkg)}
                                  ELSE channel_files
    /\ UNCHANGED <<host, pypirc, frame, environ, repo>>

\* the rest of binstar_upload_and_purge up to the loop of
\* purge_old_binstar_files: nothing on 'main', files_to_remove otherwise
Purge ==
    /\ pc = "uploaded"
    /\ IF purges_channel(frame.channel)
       THEN LET r == files_to_remove(channel_files, frame.filepath)
            IN  /\ pc' = IF r.exc = "" THEN "purge" ELSE "raised"
                /\ ret' = [exc |-> r.exc, val |-> None]
                /\ frame' = [frame EXCEPT !.shown = channel_files, !.found = r.val,
                                          !.left = r.val]
                /\ stdout' = Append(stdout, "Purging old releases from channel")
       ELSE /\ pc' = "returned"
            /\ ret' = NoRet
            /\ frame' = frame
            /\ stdout' = Append(stdout, "On main channel - no purging of releases will be done.")
    /\ UNCHANGED <<host, pypirc, environ, repo, channel_files, calls>>

\* one turn of the loop of purge_old_binstar_files: binstar_remove_file on the
\* next file (the order is the one show_channel listed them in), which the
\* API carries out or refuses
Remove ==
    /\ pc = "purge"
    /\ IF frame.left = {}
       THEN /\ pc' = "returned"
            /\ UNCHANGED <<frame, ret, channel_files, calls>>
       ELSE \E old_file \in frame.left, ok \in BOOLEAN :
               LET dist == <<BinstarFile_user(old_file).val, BinstarFile_name(old_file).val,
                             BinstarFile_version(old_file).val,
                             BinstarFile_basename(old_file).val>>
               IN  /\ calls' = Append(calls, [call |-> "remove_dist", args |-> dist,
                                             rc |-> IF ok THEN 0 ELSE 1])
                   /\ pc' = IF ok THEN "purge" ELSE "raised"
                   /\ ret' = IF ok THEN ret ELSE [exc |-> "BinstarError", val |-> None]
                   /\ frame' = IF ok THEN [frame EXCEPT !.left = @ \ {old_file}] ELSE frame
                   /\ channel_files' = IF ok THEN channel_files \ {Join(dist, "/")}
                                       ELSE channel_files
    /\ UNCHANGED <<host, pypirc, environ, repo, stdout>>

Next ==
    \/ Call_set_condaci_version
    \/ Call_binstar_channel_from_ci
    \/ Call_binstar_upload_if_appropriate
    \/ Upload
    \/ Purge
    \/ Remove

Spec == Init /\ [][Next]_vars

u_pypi == <<"acme">>
p_pypi == <<"s3cret">>

PypiFrame(username, password) ==
    [fn |-> "upload_to_pypi_if_appropriate", username |-> username,
     password |-> password]

InitPypi ==
    /\ pc = "idle"
    /\ frame = IdleFrame
    /\ ret = NoRet
    /\ environ = EmptyEnviron
    /\ repo \in Repos
    /\ channel_files = {}
    /\ calls = <<>>
    /\ stdout = <<>>
    /\ host \in Hosts
    /\ pypirc = NoFile

\* upload_to_pypi_if_appropriate(mc, username, password), up to the upload
Call_upload_to_pypi_if_appropriate ==
    /\ pc = "idle"
    /\ \E username \in {None, u_pypi}, password \in {None, p_pypi} :
          LET d == pypi_decision(username, password, repo, host, pypirc)
          IN  /\ frame' = PypiFrame(username, password)
              /\ pc' = CASE d.go = "return" -> "returned"
                         [] d.go = "raise" -> "raised"
                         [] d.go = "upload" -> "sdist_upload"
              /\ ret' = [exc |-> d.exc, val |-> None]
              /\ stdout' = stdout \o d.said
              /\ pypirc' = d.file
    /\ UNCHANGED <<host, environ, repo, channel_files, calls>>

\* execute_sequence([python(mc), 'setup.py', 'sdist', 'upload']): the process
\* exits with rc
SdistUpload ==
    /\ pc = "sdist_upload"
    /\ \E rc \in {0, 1} :
          /\ calls' = Append(calls, [call |-> "sdist_upload",
                                     args |-> <<"python", "setup.py", "sdist", "upload">>,
                                     rc |-> rc])
          /\ pc' = IF rc = 0 THEN "returned" ELSE "raised"
          /\ ret' = IF rc = 0 THEN NoRet
                    ELSE [exc |-> "CalledProcessError", val |-> None]
    /\ UNCHANGED <<host, pypirc, frame, environ, repo, channel_files, stdout>>

NextPypi ==
    \/ Call_upload_to_pypi_if_appropriate
    \/ SdistUpload

SpecPypi == InitPypi /\ [][NextPypi]_vars

NextPurge ==
    \/ Call_binstar_upload_and_purge
    \/ Upload
    \/ Purge
    \/ Remove

SpecPurge == InitPurge /\ [][NextPurge]_vars

-----------------------------------------------------------------------------
(* Properties of the functions on strings                                  *)

\* positions of character c in s
Positions(s, c) == {i \in DOMAIN s : s[i] = c}
MinOf(S) == CHOOSE i \in S : \A j \in S : i <= j
MaxOf(S) == CHOOSE i \in S : \A j \in S : j <= i

HasPlus(v) == Positions(v, "+") # {}

\* the portion of v before its first '+'
BaseOf(v) == IF HasPlus(v) THEN SubSeq(v, 1, MinOf(Positions(v, "+")) - 1) ELSE v

HasRc(b) == \E i \in 1..(Len(b) - 1) : b[i] = "r" /\ b[i + 1] = "c"

\* the text after the last '.' of b (all of b without a '.') starts with dev
TrailingDev(b) ==
    LET k == IF Positions(b, ".") = {} THEN 0 ELSE MaxOf(Positions(b, "."))
    IN  k + 3 <= Len(b) /\ b[k + 1] = "d" /\ b[k + 2] = "e" /\ b[k + 3] = "v"

IsRelease(v) == ~HasPlus(v) /\ ~HasRc(BaseOf(v)) /\ ~TrailingDev(BaseOf(v))

\* C5: is_tag(v) is true iff v has no '+'; is_release_tag(v) is true iff v has
\* no '+' and its base holds neither 'rc' nor a last dot-component starting
\* with 'dev'; so no version with a '+' is a release.
C5_Classification ==
    /\ (pc = "returned" /\ frame.fn = "is_tag")
          => (ret.val <=> ~HasPlus(frame.arg))
    /\ (pc = "returned" /\ frame.fn = "is_release_tag")
          => /\ ret.val <=> IsRelease(frame.arg)
             /\ HasPlus(frame.arg) => ~ret.val
    /\ frame.fn \in {"is_tag", "is_release_tag"} => pc = "returned"

\* a tag whose last component is a dev marker was classified as no release
C5_Witness ==
    /\ pc = "returned" /\ frame.fn = "is_release_tag"
    /\ frame.arg = v_1_2_dev3 /\ ret.val = FALSE

\* the describe output without its leading 'v' or 'V'
Unprefixed(out) == IF out[1] \in {"v", "V"} THEN Tail(out) ELSE out

\* BASE+N.SHA for a string with exactly two '-', by their positions
Rebuilt(s) ==
    LET d1 == MinOf(Positions(s, "-"))
        d2 == MaxOf(Positions(s, "-"))
    IN  SubSeq(s, 1, d1 - 1) \o <<"+">> \o SubSeq(s, d1 + 1, d2 - 1) \o <<".">>
            \o SubSeq(s, d2 + 1, Len(s))

\* C6 as stated: three '-'-delimited parts after the strip give BASE+N.SHA and
\* any other output is returned unchanged.
C6_AsStated ==
    (frame.fn = "version_from_git_tags")
        => /\ pc = "returned"
           /\ ret.val = IF Cardinality(Positions(Unprefixed(repo.git.out), "-")) = 2
                        THEN Rebuilt(Unprefixed(repo.git.out))
                        ELSE repo.git.out

\* C6, amended: three '-'-delimited parts after the strip give BASE+N.SHA; any
\* other output is returned without raising and without being rewritten, but
\* still with its leading 'v' or 'V' stripped.
C6_ReturnsStripped ==
    (frame.fn = "version_from_git_tags")
        => /\ pc = "returned"
           /\ ret.val = IF Cardinality(Positions(Unprefixed(repo.git.out), "-")) = 2
                        THEN Rebuilt(Unprefixed(repo.git.out))
                        ELSE Unprefixed(repo.git.out)

\* 'v1.2', a tag with a prefix and no commits after it, came back as '1.2'
C6_Witness ==
    /\ pc = "returned" /\ frame.fn = "version_from_git_tags"
    /\ repo.git.out = <<"v", "1", ".", "2">>
    /\ ret.val = v_1_2

NumSegments(full_name) == Cardinality(Positions(full_name, "/")) + 1

\* the text between the second '/' and the third (or the end)
ThirdSegment(full_name) ==
    LET after2 == {i \in Positions(full_name, "/") :
                      Cardinality({j \in Positions(full_name, "/") : j < i}) = 1}
        from == MinOf(after2) + 1
        later == {i \in Positions(full_name, "/") : i >= from}
    IN  SubSeq(full_name, from, IF later = {} THEN Len(full_name) ELSE MinOf(later) - 1)

\* C7 as stated: constructing a record from an identifier with fewer than
\* three segments yields an error.
C7_AsStated ==
    (frame.fn = "BinstarFile" /\ NumSegments(frame.arg) < 3) => ret.exc # ""

\* C7, amended: constructing a record never fails, whatever the identifier; the
\* failure comes when a field is read: reading the version of a record whose
\* identifier has fewer than three segments raises IndexError, and with three
\* or more segments it gives the third.
C7_FailsOnRead ==
    /\ frame.fn = "BinstarFile"
          => pc = "constructed" /\ ret.exc = "" /\ ret.val.full_name = frame.arg
    /\ frame.fn = "version"
          => IF NumSegments(frame.arg) < 3
             THEN pc = "raised" /\ ret.exc = "IndexError"
             ELSE pc = "returned" /\ ret.val = ThirdSegment(frame.arg)

\* the version of a record built from a two-segment identifier was read
C7_Witness ==
    /\ pc = "raised" /\ frame.fn = "version"
    /\ NumSegments(frame.arg) = 2 /\ ret.exc = "IndexError"

-----------------------------------------------------------------------------
(* Properties of retention                                                 *)

\* the hosted identifiers that follow user/name/version/platform/filename,
\* with the package each one names
KnownPackages == HostedPackages \cup BuiltPackages
WellFormed(shown) == \A i \in shown : \E h \in KnownPackages : i = PkgFullName(u_acme, h)

\* same_release_line(v1, v2): v2 starts with the portion of v1 before its '+'
OnReleaseLineOf(v1, v2) ==
    /\ Len(BaseOf(v1)) <= Len(v2)
    /\ \A i \in 1..Len(BaseOf(v1)) : v2[i] = v1[i]

\* the hosted records that the new package pkg supersedes
SupersededBy(pkg, shown) ==
    {BinstarFile(PkgFullName(u_acme, h)) : h \in
        {h \in KnownPackages :
            /\ PkgFullName(u_acme, h) \in shown
            /\ h.name = pkg.name
            /\ h.configuration = pkg.configuration
            /\ h.platform = pkg.platform
            /\ h.version # pkg.version
            /\ ~IsRelease(h.version)
            /\ OnReleaseLineOf(pkg.version, h.version)}}

\* files_to_remove has been called in this run
AfterFilesToRemove == pc \in {"purge", "returned", "raised"} /\ frame.shown # {}

\* C1: for every new artifact and every set of hosted artifacts,
\* files_to_remove returns exactly the hosted records of the same name,
\* configuration and platform whose version differs from the new one, is no
\* release tag and is on the release line of the new one.
C1_ExactlySuperseded ==
    (AfterFilesToRemove /\ WellFormed(frame.shown))
        => /\ ret.exc # "IndexError"
           /\ frame.found = SupersededBy(frame.pkg, frame.shown)

\* what C1 states, for the packages whose name holds no '-': this much holds
C1_HoldsWithoutHyphen ==
    (\A i \in DOMAIN frame.pkg.name : frame.pkg.name[i] # "-") => C1_ExactlySuperseded

RemoveCalls == {i \in DOMAIN calls : calls[i].call = "remove_dist"}

\* C2: in a run of binstar_upload_and_purge on channel 'main' no delete call is
\* issued and the removal set is empty, whatever is hosted and uploaded.
C2_MainNeverPurged ==
    (frame.fn = "binstar_upload_and_purge" /\ frame.channel = <<"main">>)
        => /\ RemoveCalls = {}
           /\ frame.found = {}
           /\ pc # "purge"

\* the run on 'main' returned although the channel holds a file that the same
\* upload would purge from any other channel
C2_Witness ==
    /\ frame.fn = "binstar_upload_and_purge" /\ frame.channel = <<"main">>
    /\ pc = "returned"
    /\ SupersededBy(frame.pkg, channel_files) # {}

\* C3: no record whose version is a release tag is returned by
\* files_to_remove, and none is passed to the delete call.
C3_ReleasesKept ==
    /\ \A f \in frame.found : ~IsRelease(ThirdSegment(f.full_name))
    /\ \A i \in RemoveCalls : ~IsRelease(calls[i].args[3])

\* a post-release build was deleted while the release of the same name,
\* configuration, platform and release line stayed on the channel
C3_Witness ==
    /\ frame.pkg.version = v_1_2_post2
    /\ \E i \in RemoveCalls : calls[i].rc = 0
    /\ PkgFullName(u_acme, Package(frame.pkg.name, v_1_2, frame.pkg.platform,
                                   frame.pkg.configuration)) \in frame.shown \cap channel_files

\* C4: every record returned by files_to_remove has the base version (the
\* portion before '+') of the new artifact's version.
C4_SameBase ==
    \A f \in frame.found : BaseOf(ThirdSegment(f.full_name)) = BaseOf(frame.pkg.version)

-----------------------------------------------------------------------------
(* Properties of the upload                                                *)

\* the CI context says the build is a pull request
ReportsPullRequest(env) ==
    \/ env["TRAVIS"] # None /\ env["TRAVIS_PULL_REQUEST"] \notin {None, <<"false">>}
    \/ env["TRAVIS"] = None /\ env["APPVEYOR"] # None
          /\ env["APPVEYOR_PULL_REQUEST_NUMBER"] # None

\* the CI context says the build is no pull request
ReportsNoPullRequest(env) ==
    \/ env["TRAVIS"] # None /\ env["TRAVIS_PULL_REQUEST"] = <<"false">>
    \/ env["TRAVIS"] = None /\ env["APPVEYOR"] # None
          /\ env["APPVEYOR_PULL_REQUEST_NUMBER"] = None

\* C8: binstar_upload_if_appropriate issues the upload and the purge only with
\* a user and a key and a CI context that reports no pull request; without a
\* user or a key, or on a pull request, it returns having called nothing.
C8_UploadOnlyWhenFit ==
    (frame.fn = "binstar_upload_if_appropriate")
        => /\ (calls # <<>> \/ pc \in {"upload", "uploaded", "purge"})
                => /\ frame.user # None /\ frame.key # None
                   /\ ReportsNoPullRequest(environ)
           /\ (frame.user = None \/ frame.key = None \/ ReportsPullRequest(environ))
                => pc = "returned" /\ calls = <<>> /\ ret.exc = ""

\* a pull request with user and key returned without a call
C8_Witness ==
    /\ frame.fn = "binstar_upload_if_appropriate" /\ pc = "returned"
    /\ frame.user # None /\ frame.key # None
    /\ ReportsPullRequest(environ)
    /\ calls = <<>>

\* the upload command ended this run with a non-zero exit
UploadFailed ==
    /\ pc = "raised" /\ calls # <<>>
    /\ calls[Len(calls)].call = "upload" /\ calls[Len(calls)].rc # 0

\* C9: when the upload command exits non-zero the error raised carries its
\* return code and its command with 'BINSTAR_KEY' in place of the key, and the
\* key is nowhere in it.
C9_KeyMasked ==
    UploadFailed
        => /\ ret.exc = "CalledProcessError"
           /\ ret.val.returncode = calls[Len(calls)].rc
           /\ Len(ret.val.cmd) = Len(calls[Len(calls)].args)
           /\ \A i \in DOMAIN ret.val.cmd :
                 /\ ret.val.cmd[i] # frame.key
                 /\ ret.val.cmd[i] =
                       IF calls[Len(calls)].args[i] = frame.key THEN <<"BINSTAR_KEY">>
                       ELSE calls[Len(calls)].args[i]

\* the process ran with the key and exited with 2
C9_Witness ==
    /\ UploadFailed
    /\ calls[Len(calls)].rc = 2
    /\ \E i \in DOMAIN calls[Len(calls)].args : calls[Len(calls)].args[i] = k_secret
    /\ ret.val.returncode = 2

\* the version the checkout resolves to, if any
Resolvable(r) == Len(r.versioneer) = 1 \/ r.git.returncode = 0
Resolved(r) ==
    IF Len(r.versioneer) = 1 THEN r.versioneer[1]
    ELSE IF Cardinality(Positions(Unprefixed(r.git.out), "-")) = 2
    THEN Rebuilt(Unprefixed(r.git.out))
    ELSE Unprefixed(r.git.out)

-----------------------------------------------------------------------------
(* Properties of the order of upload and purge                             *)

\* the delete call that the API refused, ending the run
DeleteFailed ==
    /\ pc = "raised" /\ calls # <<>>
    /\ calls[Len(calls)].call = "remove_dist" /\ calls[Len(calls)].rc # 0

\* C11: every delete call comes after the upload of the new artifact has
\* succeeded; if the upload fails the run ends with the error and nothing is
\* deleted; if a delete call fails the run ends there, the candidates not yet
\* deleted stay on the channel and the ones already deleted stay deleted.
C11_DeleteAfterUpload ==
    /\ \A i \in RemoveCalls :
          /\ i > 1 /\ calls[1].call = "upload" /\ calls[1].rc = 0
          /\ \A j \in 1..(i - 1) : calls[j].rc = 0
    /\ (calls # <<>> /\ calls[1].call = "upload" /\ calls[1].rc # 0)
          => /\ pc = "raised" /\ ret.exc = "CalledProcessError"
             /\ Len(calls) = 1
             /\ frame.found = {}
    /\ \A f \in frame.left : f.full_name \in channel_files
    /\ \A f \in frame.found \ frame.left : f.full_name \notin channel_files
    /\ DeleteFailed
          => /\ ret.exc = "BinstarError"
             /\ Cardinality({i \in RemoveCalls : calls[i].rc = 0})
                   = Cardinality(frame.found \ frame.left)
             /\ \E f \in frame.left :
                   calls[Len(calls)].args[3] = ThirdSegment(f.full_name)

\* of two candidates one was deleted, then the delete of the other failed
C11_Witness ==
    /\ DeleteFailed
    /\ Cardinality(frame.found) = 2 /\ Cardinality(frame.left) = 1
    /\ \E i \in RemoveCalls : calls[i].rc = 0

-----------------------------------------------------------------------------
(* Properties of the choice of channel                                     *)

\* binstar_channel_from_ci has been called and is over
ChannelChosen == frame.fn = "binstar_channel_from_ci" /\ pc \in {"returned", "raised"}

\* what the provider says of the branch: Travis first, then Appveyor; a
\* Travis build whose tag and branch are the same string counts as master
ReportedBranch(env) ==
    IF env["TRAVIS"] # None
    THEN IF env["TRAVIS_TAG"] = None \/ env["TRAVIS_BRANCH"] = None
         THEN [exc |-> "KeyError", val |-> None]
         ELSE IF env["TRAVIS_TAG"] = env["TRAVIS_BRANCH"]
         THEN [exc |-> "", val |-> <<"master">>]
         ELSE [exc |-> "", val |-> env["TRAVIS_BRANCH"]]
    ELSE IF env["APPVEYOR"] # None
    THEN IF env["APPVEYOR_REPO_BRANCH"] = None THEN [exc |-> "KeyError", val |-> None]
         ELSE [exc |-> "", val |-> env["APPVEYOR_REPO_BRANCH"]]
    ELSE [exc |-> "ValueError", val |-> None]

\* C12 as stated: the channel is 'main' if and only if the resolved version
\* is a release tag, and for a version that is no release it is the branch
\* the provider reports.
C12_MainIffRelease ==
    (ChannelChosen /\ pc = "returned")
        => /\ ret.val = <<"main">> <=> IsRelease(Resolved(repo))
           /\ ~IsRelease(Resolved(repo)) => ret = ReportedBranch(environ)

\* C12: with a resolved version, the channel is 'main' when the version is a
\* release tag; for every other version the outcome is the branch the
\* provider reports, whatever its name ('main' included), or the error of
\* asking it; without a resolved version the call raises.
C12_MainIfRelease ==
    ChannelChosen
        => IF ~Resolvable(repo) THEN pc = "raised"
           ELSE IF IsRelease(Resolved(repo))
           THEN pc = "returned" /\ ret = [exc |-> "", val |-> <<"main">>]
           ELSE /\ ret = ReportedBranch(environ)
                /\ pc = IF ret.exc = "" THEN "returned" ELSE "raised"

\* a build that is no release, pushed to a branch called main, gets 'main'
C12_Witness ==
    /\ ChannelChosen /\ pc = "returned"
    /\ Resolvable(repo) /\ ~IsRelease(Resolved(repo))
    /\ environ["TRAVIS_BRANCH"] = <<"main">>
    /\ ret.val = <<"main">>

-----------------------------------------------------------------------------
(* Properties of the upload to PyPI                                        *)

PypiCalls == {i \in DOMAIN calls : calls[i].call = "sdist_upload"}
HoldsCredentials(file) == file.exists /\ file.username # None /\ file.password # None

\* upload_to_pypi_if_appropriate has been called
PypiCalled == pc # "idle" /\ frame.fn = "upload_to_pypi_if_appropriate"

\* the three conditions: both credentials supplied, a release tag resolved,
\* on the key node
PypiFit ==
    /\ frame.username # None /\ frame.password # None
    /\ Resolvable(repo) /\ IsRelease(Resolved(repo))
    /\ host.platform = "Linux" /\ host.arch = "64bit" /\ host.major = 2

\* C13: the credentials file is written and the PyPI upload is run only when
\* username and password are both supplied, the resolved version is a
\* release tag and the host is the key node; otherwise no credentials file
\* is written and no upload is performed.
C13_OnlyOnKeyNode ==
    (PypiCalled /\ ~PypiFit) => /\ ~HoldsCredentials(pypirc)
                                /\ PypiCalls = {}

====
